---- MODULE Spec2Model ----
(***************************************************************************)
(* gh-recon (package ghrecon, main.go): discovery of an organization's     *)
(* repositories and members, merge of the repository lists, and the        *)
(* concurrent clone / flatten / hook dispatch of FullRecon.                *)
(*                                                                         *)
(* Strings the code pattern-matches (URLs) are sequences of one-character  *)
(* strings; strings it only compares or passes on are TLA+ strings.        *)
(***************************************************************************)
EXTENDS Integers, Sequences, FiniteSets, TLC

VARIABLES
    pc,        \* position of the goroutine running FullRecon
    org,       \* *Organization returned by GetOrganization (None before)
    users,     \* []User returned by GetMembers
    repos,     \* []Repository: the list FullRecon builds and ranges over
    ui,        \* number of members whose repositories have been merged
    k,         \* iterations of the spawn loop started; the loop variable repo holds repos[k]
    wg,        \* sync.WaitGroup counter
    tasks,     \* the goroutines spawned by the loop, in spawn order
    fs,        \* the memfs filesystem made on line 192: the tasks that checked out into it
    fetches,   \* history: the URLs handed to http.Get, in order
    lists,     \* history: the repository lists fetched, in order (the organization's first)
    softFail,  \* history: GetMembers took the decode-failure branch
    arg,       \* input of the pure-function specifications
    ret        \* their result

vars == <<pc, org, users, repos, ui, k, wg, tasks, fs, fetches, lists, softFail, arg, ret>>

None == "none"

(***************************************************************************)
(* Bounds of the model.                                                    *)
(***************************************************************************)
MaxMembers == 2      \* members in a members response
MaxOrgRepos == 2     \* repositories in the organization's response
MaxUserRepos == 2    \* repositories in one member's response
MaxRepos == 3        \* length of the merged list, i.e. goroutines spawned
NumHooks == 2        \* len(hooks)

(***************************************************************************)
(* Characters and the character classes of the pattern on line 116.        *)
(***************************************************************************)
LowerChars == {"a","b","c","d","e","f","g","h","i","j","k","l","m",
               "n","o","p","q","r","s","t","u","v","w","x","y","z"}
UpperChars == {"A","B","C","D","E","F","G","H","I","J","K","L","M",
               "N","O","P","Q","R","S","T","U","V","W","X","Y","Z"}
DigitChars == {"0","1","2","3","4","5","6","7","8","9"}
\* \w
WordChars == LowerChars \cup UpperChars \cup DigitChars \cup {"_"}
\* the characters excluded by [^"'\s><\\\{\}]
PathExcluded == {"\"", "'", " ", "\t", "\n", "\r", "\f", ">", "<", "\\", "{", "}"}
\* every character of the model's alphabet
Chars == WordChars \cup PathExcluded \cup {"/", ".", ":", "?", "=", "&", "-", "%", "#"}
\* [^"'\s><\\\{\}]
PathChars == Chars \ PathExcluded

\* First position >= p of s holding a character outside class (Len(s)+1 if none).
RunEnd(s, p, class) ==
    CHOOSE q \in p..(Len(s) + 1) :
        /\ \A j \in p..(q - 1) : s[j] \in class
        /\ (q = Len(s) + 1 \/ s[q] \notin class)

\* s has the literal lit at position p.
HasAt(s, p, lit) ==
    /\ p + Len(lit) - 1 <= Len(s)
    /\ \A j \in 1..Len(lit) : s[p + j - 1] = lit[j]

\* ^https?://  : position after the scheme, 0 when it does not match.
SchemeEnd(s) ==
    IF HasAt(s, 1, <<"h","t","t","p","s",":","/","/">>) THEN 9
    ELSE IF HasAt(s, 1, <<"h","t","t","p",":","/","/">>) THEN 8
    ELSE 0

\* \w+\.  at p: position after the dot, 0 when it does not match.
LabelEnd(s, p) ==
    LET q == RunEnd(s, p, WordChars)
    IN IF q > p /\ q <= Len(s) /\ s[q] = "." THEN q + 1 ELSE 0

\* Positions reached after 1, 2, ... iterations of (\w+\.)+ from p.
RECURSIVE LabelEnds(_, _)
LabelEnds(s, p) ==
    LET q == LabelEnd(s, p)
    IN IF q = 0 THEN <<>> ELSE <<q>> \o LabelEnds(s, q)

\* [a-z]{2,} in place of [a-z]{2,5}
TldEndUncapped(s, p) ==
    LET n == RunEnd(s, p, LowerChars) - p
    IN IF n < 2 THEN 0 ELSE p + n

\* [a-z]{2,5} at p, greedy: position after it, 0 when fewer than two letters.
TldEnd(s, p) ==
    LET n == RunEnd(s, p, LowerChars) - p
    IN IF n < 2 THEN 0 ELSE IF n > 5 THEN p + 5 ELSE p + n

\* (/[^"'\s><\\\{\}]+)* at p, greedy: position after it.  The class admits
\* "/", so one iteration runs to the first excluded character.
PathEnd(s, p) ==
    IF p <= Len(s) /\ s[p] = "/"
    THEN LET q == RunEnd(s, p + 1, PathChars)
         IN IF q > p + 1 THEN q ELSE p
    ELSE p

\* regexp FindString with leftmost-first matching: the most iterations of
\* (\w+\.)+ after which [a-z]{2,5} matches win.
ExtractUrl(url) ==
    LET p0 == SchemeEnd(url)
        ends == IF p0 = 0 THEN <<>> ELSE LabelEnds(url, p0)
        ok == {i \in 1..Len(ends) : TldEnd(url, ends[i]) # 0}
    IN IF ok = {} THEN <<>>
       ELSE LET i == CHOOSE x \in ok : \A y \in ok : y <= x
                e == PathEnd(url, TldEnd(url, ends[i]))
            IN SubSeq(url, 1, e - 1)

(***************************************************************************)
(* The remote world: the JSON the API serves and the repositories behind   *)
(* the clone URLs.                                                         *)
(***************************************************************************)
Base == <<"h","t","t","p","s",":","/","/","g",".","i","o">>
\* the url FullRecon is called with
OrgUrl == Base \o <<"/","o">>
MembersTemplated == Base \o <<"/","m","{","/","u","}">>
MembersPlain == Base \o <<"/","m">>
OrgReposUrl == Base \o <<"/","r">>

\* the zero values of Organization and Repository
NoOrg == [Id |-> 0, Login |-> "", ReposUrl |-> <<>>, MembersUrl |-> <<>>]
NoRepo == [Id |-> 0, Owner |-> [Login |-> "", Type |-> ""], Url |-> ""]

Orgs == { [Id |-> 1, Login |-> "acme", ReposUrl |-> OrgReposUrl, MembersUrl |-> m] :
            m \in {MembersTemplated, MembersPlain} }

bob == [Login |-> "bob", Id |-> 11, Type |-> "User", ReposUrl |-> Base \o <<"/","b","{","/","x","}">>]
eve == [Login |-> "eve", Id |-> 12, Type |-> "User", ReposUrl |-> Base \o <<"/","e">>]
Roster == <<bob, eve>>

Repo(id, login, type, url) ==
    [Id |-> id, Owner |-> [Login |-> login, Type |-> type], Url |-> url]
r1 == Repo(1, "acme", "Organization", "r1")
r2 == Repo(2, "acme", "Organization", "r2")
r3 == Repo(3, "bob", "User", "r3")
r4 == Repo(4, "acme", "User", "r4")
r5 == Repo(5, "other", "Organization", "r5")

Regular == "0100644"
Executable == "0100755"
Entry(name, mode, hash) == [Name |-> name, Mode |-> mode, Hash |-> hash]

\* What git.Clone leaves in the storer for a clone URL: the tree objects
\* (each a sequence of entries) and the blob objects (named by their hash).
StoreOf(url) ==
    CASE url = "r1" -> [Trees |-> {<<Entry("a", Regular, "h1"), Entry("b", Regular, "h2")>>},
                        Blobs |-> {"h1", "h2"}]
      [] url = "r2" -> [Trees |-> {<<Entry("c", Regular, "h3")>>}, Blobs |-> {"h3"}]
      [] url = "r3" -> [Trees |-> {<<Entry("d", Regular, "h4")>>}, Blobs |-> {"h4"}]
      [] url = "r4" -> [Trees |-> {<<Entry("f", Regular, "h5"), Entry("run", Executable, "h6")>>},
                        Blobs |-> {"h5", "h6"}]
      [] OTHER -> [Trees |-> {<<>>}, Blobs |-> {}]

(***************************************************************************)
(* ParseRepository, lines 79-105: the flattening of a cloned store.        *)
(***************************************************************************)
Perms(S) == {f \in [1..Cardinality(S) -> S] : \A i, j \in DOMAIN f : f[i] = f[j] => i = j}

RECURSIVE Concat(_)
Concat(ss) == IF ss = <<>> THEN <<>> ELSE Head(ss) \o Concat(Tail(ss))

\* lines 79-89: names[entry.Hash] = entry.Name for every regular entry, in
\* iteration order; a later entry for the same hash overwrites.
RECURSIVE NamesOf(_)
NamesOf(entries) ==
    IF entries = <<>> THEN [h \in {} |-> ""]
    ELSE LET m == NamesOf(SubSeq(entries, 1, Len(entries) - 1))
             e == entries[Len(entries)]
         IN IF e.Mode = Regular
            THEN [h \in DOMAIN m \cup {e.Hash} |-> IF h = e.Hash THEN e.Name ELSE m[h]]
            ELSE m

\* names[hash] of a Go map: the zero value "" for a missing key.
Lookup(names, h) == IF h \in DOMAIN names THEN names[h] ELSE ""

\* line 91: the length targets is made with.
TargetsLen(names) == Cardinality(DOMAIN names)

\* the zero value of TargetFile
ZeroTarget == [Filename |-> "", Data |-> None, Repo |-> None]

\* lines 91-105: targets[i] is assigned for each blob in iteration order;
\* an index beyond len(targets) panics, slots never assigned stay zero.
Targets(names, blobs, repo) ==
    IF Len(blobs) > TargetsLen(names)
    THEN [panic |-> TRUE, files |-> <<>>]
    ELSE [panic |-> FALSE,
          files |-> [i \in 1..TargetsLen(names) |->
                       IF i <= Len(blobs)
                       THEN [Filename |-> Lookup(names, blobs[i]), Data |-> blobs[i], Repo |-> repo]
                       ELSE ZeroTarget]]

\* Every outcome of lines 79-105 for a store (panic, or the files returned): the iteration order
\* of the maps storer.Trees and storer.Blobs is unspecified.
Flattenings(store, repo) ==
    { Targets(NamesOf(Concat(to)), bo, repo) : to \in Perms(store.Trees), bo \in Perms(store.Blobs) }

(***************************************************************************)
(* Discovery, lines 42-68, 120-161 and 165-186.                            *)
(***************************************************************************)
Malformed == "malformed"

BoundedSeq(S, n) == UNION {[1..m -> S] : m \in 0..n}
Prefixes(s, n) == {SubSeq(s, 1, m) : m \in 0..(IF n < Len(s) THEN n ELSE Len(s))}

\* What one http.Get plus decode can come to: a transport error, a 403, or
\* a body (one of bodies, or one that does not decode).
Replies(bodies) ==
    {[is |-> e, body |-> <<>>] : e \in {"transport", "forbidden", Malformed}}
        \cup {[is |-> "ok", body |-> b] : b \in bodies}

\* goroutines that keep running after log.Fatal
AliveAfterFatal == pc \notin {"panic", "done"}

\* log.Fatal (os.Exit) and an unrecovered panic end every goroutine.
Alive == pc \notin {"fatal", "panic", "done"}

\* lines 120-138
GetOrganization(bodies) ==
    /\ pc = "getOrganization"
    /\ fetches' = Append(fetches, OrgUrl)
    /\ \E r \in Replies(bodies) :
          IF r.is # "ok"
          THEN pc' = "fatal" /\ org' = org
          ELSE pc' = "getMembers" /\ org' = r.body
    /\ UNCHANGED <<users, repos, ui, k, wg, tasks, fs, lists, softFail, arg, ret>>

\* line 141: the URL GetMembers hands to http.Get.
MembersFetchUrl(o) == o.MembersUrl

\* lines 140-161
GetMembers(bodies) ==
    /\ pc = "getMembers"
    /\ fetches' = Append(fetches, MembersFetchUrl(org))
    /\ \E r \in Replies(bodies) :
          IF r.is \in {"transport", "forbidden"}
          THEN pc' = "fatal" /\ users' = users /\ softFail' = softFail
          ELSE IF r.is = Malformed
          THEN pc' = "getRepositories" /\ users' = <<>> /\ softFail' = TRUE
          ELSE pc' = "getRepositories" /\ users' = r.body /\ softFail' = softFail
    /\ UNCHANGED <<org, repos, ui, k, wg, tasks, fs, lists, arg, ret>>

\* lines 42-60 behind lines 66-68 (line 173)
GetOrgRepositories(bodies) ==
    /\ pc = "getRepositories"
    /\ fetches' = Append(fetches, ExtractUrl(org.ReposUrl))
    /\ \E r \in Replies(bodies) :
          IF r.is # "ok"
          THEN pc' = "fatal" /\ repos' = repos /\ lists' = lists
          ELSE pc' = "users" /\ repos' = r.body /\ lists' = <<r.body>>
    /\ UNCHANGED <<org, users, ui, k, wg, tasks, fs, softFail, arg, ret>>

\* a skip that looks at the owner's login alone
SkippedByLogin(repo, o) == repo.Owner.Login = o.Login

\* line 179: the member repository is skipped.
Skipped(repo, o) == repo.Owner.Type = "Organization" /\ repo.Owner.Login = o.Login

\* lines 178-184: the repositories of one member that are appended, in order.
Kept(userRepos, o) == SelectSeq(userRepos, LAMBDA repo : ~Skipped(repo, o))

\* lines 175-186, one iteration: the member's fetch (lines 62-64) and the
\* inner loop.
GetUserRepositories(bodies) ==
    /\ pc = "users"
    /\ ui < Len(users)
    /\ fetches' = Append(fetches, ExtractUrl(users[ui + 1].ReposUrl))
    /\ \E r \in Replies(bodies) :
          IF r.is # "ok"
          THEN pc' = "fatal" /\ UNCHANGED <<repos, ui, lists>>
          ELSE /\ Len(repos) + Len(Kept(r.body, org)) <= MaxRepos
               /\ pc' = pc
               /\ repos' = repos \o Kept(r.body, org)
               /\ ui' = ui + 1
               /\ lists' = Append(lists, r.body)
    /\ UNCHANGED <<org, users, k, wg, tasks, fs, softFail, arg, ret>>

(***************************************************************************)
(* The dispatch pipeline, lines 192-209, and the body of each goroutine.   *)
(***************************************************************************)
Fs == "fs"             \* the filesystem memfs.New() returns on line 192
LoopVar == "&repo"     \* the address of the loop variable repo of line 195

\* The value *p holds for the pointer every goroutine receives: the loop
\* variable is written at the top of each iteration and read, unsynchronised,
\* by the goroutines.  (With one variable per iteration the read gives the
\* value at the receive, which is one of the outcomes here.)
Deref == IF k = 0 THEN NoRepo ELSE repos[k]

NewTask == [st |-> "Pending", fs |-> Fs, ptr |-> None, storer |-> 0, cloned |-> NoRepo,
            targets |-> <<>>, fi |-> 1, hi |-> 1, busy |-> FALSE, log |-> <<>>]

\* a pipeline started from inside the loop over the members
MakePipelineEarly ==
    /\ pc = "users"
    /\ pc' = "loop"
    /\ UNCHANGED <<org, users, repos, ui, k, wg, tasks, fs, fetches, lists, softFail, arg, ret>>

\* line 192, after the last member
MakePipeline ==
    /\ pc = "users"
    /\ ui = Len(users)
    /\ pc' = "loop"
    /\ UNCHANGED <<org, users, repos, ui, k, wg, tasks, fs, fetches, lists, softFail, arg, ret>>

\* lines 195-204: repo = repos[k+1]; wg.Add(1); go func(&fs)
Spawn ==
    /\ pc = "loop"
    /\ k < Len(repos)
    /\ k' = k + 1
    /\ wg' = wg + 1
    /\ tasks' = Append(tasks, NewTask)
    /\ pc' = "send"
    /\ UNCHANGED <<org, users, repos, ui, fs, fetches, lists, softFail, arg, ret>>

\* a send that is let through only while no clone is in flight
HandoffGated(i) ==
    /\ pc = "send"
    /\ tasks[i].st = "Pending"
    /\ \A j \in DOMAIN tasks : tasks[j].st # "Cloning"
    /\ tasks' = [tasks EXCEPT ![i].st = "Cloning", ![i].ptr = LoopVar]
    /\ pc' = "loop"
    /\ UNCHANGED <<org, users, repos, ui, k, wg, fs, fetches, lists, softFail, arg, ret>>

\* line 206 meeting line 199: the unbuffered send completes with the
\* receive of a goroutine blocked on <-input.
Handoff(i) ==
    /\ pc = "send"
    /\ tasks[i].st = "Pending"
    /\ tasks' = [tasks EXCEPT ![i].st = "Cloning", ![i].ptr = LoopVar]
    /\ pc' = "loop"
    /\ UNCHANGED <<org, users, repos, ui, k, wg, fs, fetches, lists, softFail, arg, ret>>

\* line 71: the storer a call of ParseRepository makes.
NewStorage(i) == i

\* lines 71-77, clone succeeds: reads repo.Url through the pointer, fills a
\* new storer and checks the work tree out into *fs.
Clone(i) ==
    /\ Alive
    /\ tasks[i].st = "Cloning"
    /\ tasks' = [tasks EXCEPT ![i].st = "Flattening", ![i].storer = NewStorage(i),
                              ![i].cloned = Deref]
    /\ fs' = fs \cup {i}
    /\ UNCHANGED <<pc, org, users, repos, ui, k, wg, fetches, lists, softFail, arg, ret>>

\* lines 73-77, clone fails: log.Fatal ends the process.
CloneFail(i) ==
    /\ Alive
    /\ tasks[i].st = "Cloning"
    /\ tasks' = [tasks EXCEPT ![i].st = "Failed", ![i].storer = NewStorage(i),
                              ![i].cloned = Deref]
    /\ pc' = "fatal"
    /\ UNCHANGED <<org, users, repos, ui, k, wg, fs, fetches, lists, softFail, arg, ret>>

\* lines 79-105: flattening; an index out of range panics the process.
ParseRepository(i) ==
    /\ Alive
    /\ tasks[i].st = "Flattening"
    /\ \E out \in Flattenings(StoreOf(tasks[i].cloned.Url), tasks[i].ptr) :
          IF out.panic
          THEN /\ pc' = "panic"
               /\ tasks' = [tasks EXCEPT ![i].st = "Panicked"]
          ELSE /\ pc' = pc
               /\ tasks' = [tasks EXCEPT ![i].st = "Dispatching", ![i].targets = out.files]
    /\ UNCHANGED <<org, users, repos, ui, k, wg, fs, fetches, lists, softFail, arg, ret>>

\* an inner loop left after its first hook
NextPosBreak(fi, hi) == <<fi + 1, 1>>

\* lines 199-203: the position after hook hi of file fi has returned.
NextPos(fi, hi) == IF hi < NumHooks THEN <<fi, hi + 1>> ELSE <<fi + 1, 1>>

\* line 201: f(file) is called.
HookCall(i) ==
    /\ Alive
    /\ tasks[i].st = "Dispatching"
    /\ ~tasks[i].busy
    /\ tasks[i].fi <= Len(tasks[i].targets)
    /\ tasks[i].hi <= NumHooks
    /\ tasks' = [tasks EXCEPT ![i].busy = TRUE,
                              ![i].log = Append(@, <<"call", tasks[i].fi, tasks[i].hi>>)]
    /\ UNCHANGED <<pc, org, users, repos, ui, k, wg, fs, fetches, lists, softFail, arg, ret>>

\* line 201: f(file) returns.
HookReturn(i) ==
    /\ Alive
    /\ tasks[i].st = "Dispatching"
    /\ tasks[i].busy
    /\ LET n == NextPos(tasks[i].fi, tasks[i].hi)
       IN tasks' = [tasks EXCEPT ![i].busy = FALSE, ![i].fi = n[1], ![i].hi = n[2],
                                 ![i].log = Append(@, <<"return", tasks[i].fi, tasks[i].hi>>)]
    /\ UNCHANGED <<pc, org, users, repos, ui, k, wg, fs, fetches, lists, softFail, arg, ret>>

\* line 198: the deferred wg.Done() when the goroutine's loops are over.
TaskDone(i) ==
    /\ Alive
    /\ tasks[i].st = "Dispatching"
    /\ ~tasks[i].busy
    /\ tasks[i].fi > Len(tasks[i].targets) \/ NumHooks = 0
    /\ tasks' = [tasks EXCEPT ![i].st = "Done"]
    /\ wg' = wg - 1
    /\ UNCHANGED <<pc, org, users, repos, ui, k, fs, fetches, lists, softFail, arg, ret>>

\* a Wait that does not wait
JoinedEarly(counter) == TRUE

\* line 209: what wg.Wait() blocks until.
Joined(counter) == counter = 0

\* line 209: wg.Wait() returns and FullRecon with it.
Wait ==
    /\ pc = "loop"
    /\ k = Len(repos)
    /\ Joined(wg)
    /\ pc' = "done"
    /\ UNCHANGED <<org, users, repos, ui, k, wg, tasks, fs, fetches, lists, softFail, arg, ret>>

(***************************************************************************)
(* FullRecon(OrgUrl, hooks) against a remote world of a few accounts.      *)
(***************************************************************************)
Init ==
    /\ pc = "getOrganization"
    /\ org = NoOrg
    /\ users = <<>>
    /\ repos = <<>>
    /\ ui = 0
    /\ k = 0
    /\ wg = 0
    /\ tasks = <<>>
    /\ fs = {}
    /\ fetches = <<>>
    /\ lists = <<>>
    /\ softFail = FALSE
    /\ arg = None
    /\ ret = None

OrgBodies == {o \in Orgs : o.MembersUrl = MembersTemplated}
MemberBodies == Prefixes(Roster, MaxMembers)
OrgRepoBodies == Prefixes(<<r1, r2>>, MaxOrgRepos)
UserRepoBodies == Prefixes(<<r3, r5>>, MaxUserRepos) \cup Prefixes(<<r1, r4>>, MaxUserRepos)

Next ==
    \/ GetOrganization(OrgBodies)
    \/ GetMembers(MemberBodies)
    \/ GetOrgRepositories(OrgRepoBodies)
    \/ GetUserRepositories(UserRepoBodies)
    \/ MakePipeline
    \/ Spawn
    \/ \E i \in DOMAIN tasks : Handoff(i)
    \/ \E i \in DOMAIN tasks : Clone(i)
    \/ \E i \in DOMAIN tasks : CloneFail(i)
    \/ \E i \in DOMAIN tasks : ParseRepository(i)
    \/ \E i \in DOMAIN tasks : HookCall(i)
    \/ \E i \in DOMAIN tasks : HookReturn(i)
    \/ \E i \in DOMAIN tasks : TaskDone(i)
    \/ Wait

Spec == Init /\ [][Next]_vars

\* The scheduler keeps running goroutines that can run, and every fetch,
\* clone and hook call terminates: some enabled step is eventually taken.
\* (No behaviour of NextFair is infinite, so fairness of it as a whole makes
\* every goroutine run until it blocks or ends.)
\* FullRecon against an organization of at most one member and one
\* repository, the member owning a repository that flattens or one that
\* does not.
NextFair ==
    \/ GetOrganization(OrgBodies)
    \/ GetMembers({<<>>, <<bob>>})
    \/ GetOrgRepositories({<<>>, <<r1>>})
    \/ GetUserRepositories({<<r3>>, <<r4>>})
    \/ MakePipeline
    \/ Spawn
    \/ \E i \in DOMAIN tasks : Handoff(i)
    \/ \E i \in DOMAIN tasks : Clone(i)
    \/ \E i \in DOMAIN tasks : CloneFail(i)
    \/ \E i \in DOMAIN tasks : ParseRepository(i)
    \/ \E i \in DOMAIN tasks : HookCall(i)
    \/ \E i \in DOMAIN tasks : HookReturn(i)
    \/ \E i \in DOMAIN tasks : TaskDone(i)
    \/ Wait

SpecFair == Init /\ [][NextFair]_vars /\ WF_vars(NextFair)

(***************************************************************************)
(* Discovery and merge alone (lines 165-186): a member's list is any        *)
(* sequence, within the bounds, of repositories of every kind of owner.    *)
(***************************************************************************)
AllRepos == {r1, r3, r4, r5}

NextBuild ==
    \/ GetOrganization(Orgs)
    \/ GetMembers(MemberBodies)
    \/ GetOrgRepositories(OrgRepoBodies)
    \/ GetUserRepositories(BoundedSeq(AllRepos, MaxUserRepos))
    \/ MakePipeline

SpecBuild == Init /\ [][NextBuild]_vars

(***************************************************************************)
(* Lines 79-105 of ParseRepository applied to every store within bounds.   *)
(***************************************************************************)
MaxTrees == 2        \* tree objects in a store
MaxEntries == 1      \* entries in a tree
Hashes == {"h1", "h2"}
EntryUniverse == {Entry(n, m, h) : n \in {"a", "b"}, m \in {Regular, Executable}, h \in Hashes}
TreeUniverse == BoundedSeq(EntryUniverse, MaxEntries)
RECURSIVE SetsUpTo(_, _)
SetsUpTo(S, n) ==
    IF n = 0 THEN {{}}
    ELSE LET smaller == SetsUpTo(S, n - 1)
         IN smaller \cup {s \cup {x} : s \in smaller, x \in S}
Stores == [Trees : SetsUpTo(TreeUniverse, MaxTrees), Blobs : SUBSET Hashes]

InitFlatten ==
    /\ pc = "flatten"
    /\ org = NoOrg
    /\ users = <<>>
    /\ repos = <<>>
    /\ ui = 0
    /\ k = 0
    /\ wg = 0
    /\ tasks = <<>>
    /\ fs = {}
    /\ fetches = <<>>
    /\ lists = <<>>
    /\ softFail = FALSE
    /\ arg \in Stores
    /\ ret = [panic |-> FALSE, files |-> <<>>]

\* lines 79-105 on the store arg
FlattenStore ==
    /\ pc = "flatten"
    /\ ret' \in Flattenings(arg, LoopVar)
    /\ pc' = "flattened"
    /\ UNCHANGED <<org, users, repos, ui, k, wg, tasks, fs, fetches, lists, softFail, arg>>

NextFlatten == FlattenStore

SpecFlatten == InitFlatten /\ [][NextFlatten]_vars

(***************************************************************************)
(* _ExtractUrl (lines 115-118) applied to URLs put together from schemes,  *)
(* hosts, paths and suffixes.                                              *)
(***************************************************************************)
Schemes == { <<"h","t","t","p",":","/","/">>, <<"h","t","t","p","s",":","/","/">>,
             <<"f","t","p",":","/","/">>, <<>> }
UrlHosts == { <<"g",".","i","o">>,
              <<"a","p","i",".","e","x","a","m","p","l","e",".","c","o","m">>,
              <<"a",".","b","c",".","d">>,
              <<"a",".","c","o","m","m","u","n","e">>,
              <<"a","{","b","}",".","i","o">>,
              <<"A","_","1",".","b","2",".","o","r","g">>,
              <<"i","o">>,
              <<"a",".","b">>,
              <<"a",".",".","i","o">> }
UrlPaths == { <<>>, <<"/">>, <<"/","x">>, <<"/","o","r","g","s","/","x","/","r","e","p","o","s">>,
              <<"/","x","/","/","y",".","z">> }
UrlSuffixes == { <<>>, <<"{","/","o","t","h","e","r","}">>, <<"?","q","=","1">>,
                 <<"{","?","p","}">>, <<" ","z">>, <<"\"">>, <<"/">> }
NotAUrl == <<"n","o","t"," ","a"," ","u","r","l">>
UrlInputs ==
    {sc \o h \o p \o x : sc \in Schemes, h \in UrlHosts, p \in UrlPaths, x \in UrlSuffixes}
        \cup {NotAUrl}

InitUrl ==
    /\ pc = "extract"
    /\ org = NoOrg
    /\ users = <<>>
    /\ repos = <<>>
    /\ ui = 0
    /\ k = 0
    /\ wg = 0
    /\ tasks = <<>>
    /\ fs = {}
    /\ fetches = <<>>
    /\ lists = <<>>
    /\ softFail = FALSE
    /\ arg \in UrlInputs
    /\ ret = <<>>

\* lines 115-118 on the string arg
ExtractArg ==
    /\ pc = "extract"
    /\ ret' = ExtractUrl(arg)
    /\ pc' = "extracted"
    /\ UNCHANGED <<org, users, repos, ui, k, wg, tasks, fs, fetches, lists, softFail, arg>>

NextUrl == ExtractArg

SpecUrl == InitUrl /\ [][NextUrl]_vars

(***************************************************************************)
(* Properties.                                                             *)
(***************************************************************************)
Acquired(t) == t.st \in {"Flattening", "Dispatching", "Done", "Panicked"}
Range(f) == {f[x] : x \in DOMAIN f}

C2_TaskClonesItsEntry ==
    \A i \in DOMAIN tasks : Acquired(tasks[i]) => tasks[i].cloned = repos[i]

\* C3: two tasks that have acquired a repository hold different storers and
\* different filesystems, and no filesystem is written by two tasks.
C3_IsolatedStoreAndFilesystem ==
    /\ \A i, j \in DOMAIN tasks :
          (i # j /\ Acquired(tasks[i]) /\ Acquired(tasks[j])) =>
              /\ tasks[i].storer # tasks[j].storer
              /\ tasks[i].fs # tasks[j].fs
    /\ Cardinality(fs) <= 1

\* The n-th event of a task's dispatch when files go in targets order and,
\* for each file, hooks in list order, one call at a time.
EventAt(n) ==
    LET idx == (n - 1) \div 2
    IN <<IF n % 2 = 1 THEN "call" ELSE "return", (idx \div NumHooks) + 1, (idx % NumHooks) + 1>>

\* C4: in each task the hook calls and returns alternate, file after file in
\* targets order and, within a file, hook after hook in list order: a call
\* starts only when the one before it has returned.
C4_DispatchOrder ==
    \A i \in DOMAIN tasks :
        /\ \A n \in DOMAIN tasks[i].log :
              /\ tasks[i].log[n] = EventAt(n)
              /\ EventAt(n)[2] <= Len(tasks[i].targets)
        /\ tasks[i].busy <=> (Len(tasks[i].log) % 2 = 1)

C4_Witness ==
    \E i \in DOMAIN tasks :
        /\ tasks[i].st = "Done"
        /\ Len(tasks[i].targets) >= 2
        /\ Len(tasks[i].log) = 2 * NumHooks * Len(tasks[i].targets)

\* C5: flattening a store with N blobs does not fail and returns exactly N
\* records, one per blob, and a record whose blob no tree entry references
\* has the filename "".
C5_FlatteningComplete ==
    pc = "flattened" =>
        /\ ~ret.panic
        /\ Len(ret.files) = Cardinality(arg.Blobs)
        /\ \A b \in arg.Blobs :
              Cardinality({n \in DOMAIN ret.files : ret.files[n].Data = b}) = 1
        /\ \A n \in DOMAIN ret.files :
              (\A t \in arg.Trees : \A e \in Range(t) : e.Hash # ret.files[n].Data)
                  => ret.files[n].Filename = ""

\* The part of the merged list that came from the members' lists.
MemberPart == SubSeq(repos, Len(lists[1]) + 1, Len(repos))
OrgOwned(r) == r.Owner.Type = "Organization" /\ r.Owner.Login = org.Login

\* C6: a repository of a merged member's list is missing from the member
\* part of the merged list exactly when its owner is an Organization whose
\* login is the scanned organization's.
C6_Dedup ==
    Len(lists) >= 1 =>
        \A j \in 2..Len(lists) : \A n \in DOMAIN lists[j] :
            (lists[j][n] \notin Range(MemberPart)) <=> OrgOwned(lists[j][n])

C6_Witness ==
    /\ pc = "loop"
    /\ \E j \in 2..Len(lists) :
          /\ r1 \in Range(lists[j])
          /\ r4 \in Range(lists[j])
          /\ r4 \in Range(MemberPart)
          /\ r1 \notin Range(MemberPart)

\* The merged list as section 4.4 builds it from the fetched lists.
MergedFrom(ls) ==
    ls[1] \o Concat([j \in 1..(Len(ls) - 1) |-> SelectSeq(ls[j + 1], LAMBDA r : ~OrgOwned(r))])

\* C7: at the join the merged list is the organization's list followed by
\* each member's non-excluded repositories in order, and a repository that
\* is not the organization's and is in two members' lists is in the merged
\* list twice and has been cloned by two tasks.
C7_NoDedupById ==
    pc = "done" =>
        /\ repos = MergedFrom(lists)
        /\ \A i, j \in 2..Len(lists) : \A r \in Range(lists[i]) \cap Range(lists[j]) :
              (i # j /\ ~OrgOwned(r)) =>
                  /\ Cardinality({n \in DOMAIN repos : repos[n].Id = r.Id}) >= 2
                  /\ Cardinality({n \in DOMAIN tasks : tasks[n].cloned.Id = r.Id}) >= 2

RECURSIVE SumOver(_, _)
SumOver(f, n) == IF n = 0 THEN 0 ELSE f[n] + SumOver(f, n - 1)

\* The hook calls a task has made.
Calls(t) == {n \in DOMAIN t.log : t.log[n][1] = "call"}

\* C8: at the join the hooks have been called (sum over the merged list of
\* the repository's number of blobs) x NumHooks times, once per hook and
\* file of each task, every task having read the repository it was sent,
\* and in each task the calls of one hook go in file order.
C8_DispatchCount ==
    pc = "done" =>
        /\ SumOver([i \in DOMAIN tasks |-> Cardinality(Calls(tasks[i]))], Len(tasks))
              = NumHooks * SumOver([i \in DOMAIN repos |->
                                      Cardinality(StoreOf(repos[i].Url).Blobs)], Len(repos))
        /\ \A i \in DOMAIN tasks :
              /\ tasks[i].cloned = repos[i]
              /\ \A f \in DOMAIN tasks[i].targets : \A h \in 1..NumHooks :
                    Cardinality({n \in Calls(tasks[i]) : tasks[i].log[n] = <<"call", f, h>>}) = 1
              /\ \A m, n \in Calls(tasks[i]) :
                    (m < n /\ tasks[i].log[m][3] = tasks[i].log[n][3])
                        => tasks[i].log[m][2] < tasks[i].log[n][2]

\* C9: GetMembers makes one fetch, the second of the run, and makes it
\* against the normalized members URL.
C9_MembersFetchNormalized ==
    pc = "getRepositories" =>
        /\ Len(fetches) = 2
        /\ fetches[2] = ExtractUrl(org.MembersUrl)

\* C10: after a members body that does not decode, the member list is empty,
\* the process goes on to fetch the organization's repositories, the merged
\* list is the organization's list, and at the join every repository of
\* that list has been cloned by a task that finished its dispatch.
C10_SoftFailMembers ==
    softFail =>
        /\ users = <<>>
        /\ Len(fetches) = 2 => pc = "getRepositories"
        /\ Len(fetches) >= 3 => fetches[3] = ExtractUrl(org.ReposUrl)
        /\ pc = "done" =>
              /\ repos = lists[1]
              /\ \A n \in DOMAIN lists[1] :
                    \E i \in DOMAIN tasks :
                        tasks[i].st = "Done" /\ tasks[i].cloned = lists[1][n]

\* C11 as stated: once a fetch or a clone has failed fatally, no hook has
\* been called for any file of any task of the run.
C11_NoPartialResults ==
    pc = "fatal" => \A i \in DOMAIN tasks : tasks[i].log = <<>>

\* C11, amended: a fatal fetch failure ends the process before any task
\* exists; a clone failure ends it with no hook called for the failing
\* task's files; and once the process has ended no task moves again.
\* Hooks already called by sibling tasks stay called.
C11_FatalEndsProcess ==
    /\ [](pc = "fatal" =>
            /\ (\A i \in DOMAIN tasks : tasks[i].st # "Failed") => tasks = <<>>
            /\ \A i \in DOMAIN tasks : tasks[i].st = "Failed" => tasks[i].log = <<>>)
    /\ [][pc = "fatal" => tasks' = tasks]_vars

C11_Witness ==
    /\ pc = "fatal"
    /\ \E i, j \in DOMAIN tasks : tasks[i].st = "Failed" /\ tasks[j].log # <<>>

\* C12: a task exists only when the organization fetch, the members fetch,
\* the organization's repositories fetch and the repositories fetch of
\* every member are over; and fetches are made one per step, by the only
\* goroutine there is, while no task exists.
C12_DiscoveryBeforeDispatch ==
    /\ [](tasks # <<>> =>
            /\ ui = Len(users)
            /\ Len(fetches) = 3 + Len(users)
            /\ Len(lists) = 1 + Len(users))
    /\ [][fetches' # fetches =>
            /\ tasks = <<>> /\ tasks' = <<>>
            /\ fetches' = Append(fetches, fetches'[Len(fetches')])]_vars

C12_Witness ==
    /\ \E i \in DOMAIN tasks : tasks[i].st = "Cloning"
    /\ Len(users) = 2
    /\ Len(fetches) = 5

\* The strings of the form scheme://host(/path-segment)*: http or https, one
\* or more labels of word characters each closed by a dot, 2 to 5 lowercase
\* letters, then nothing or a slash followed by one or more characters that
\* are not quotes, whitespace, <, >, backslash or braces.
ValidUrl(u) ==
    \E a \in {8, 9} : \E b \in (a + 2)..(Len(u) + 1) : \E c \in (b + 2)..(b + 5) :
        /\ c <= Len(u) + 1
        /\ a = 9 => HasAt(u, 1, <<"h","t","t","p","s",":","/","/">>)
        /\ a = 8 => HasAt(u, 1, <<"h","t","t","p",":","/","/">>)
        /\ u[a] # "." /\ u[b - 1] = "."
        /\ \A n \in a..(b - 1) : u[n] \in WordChars \cup {"."}
        /\ \A n \in a..(b - 2) : ~(u[n] = "." /\ u[n + 1] = ".")
        /\ \A n \in b..(c - 1) : u[n] \in LowerChars
        /\ c <= Len(u) => (u[c] = "/" /\ c < Len(u))
        /\ \A n \in c..Len(u) : u[n] \notin PathExcluded

PrefixOf(u, n) == SubSeq(u, 1, n)
\* u has a slash after the two of its scheme.
HasPath(u) == \E n \in 9..Len(u) : u[n] = "/"

TaskSteps ==
    { <<"Pending", "Cloning">>, <<"Cloning", "Flattening">>, <<"Flattening", "Dispatching">>,
      <<"Dispatching", "Done">>, <<"Cloning", "Failed">> }

\* C14: every task starts Pending and changes state only along Pending ->
\* Cloning -> Flattening -> Dispatching -> Done or Cloning -> Failed; a hook
\* has been called in a task only once its clone has filled its storer and
\* its flattening has produced the file list, which does not change while
\* the hooks run.
C14_TaskStateMachine ==
    /\ [](\A i \in DOMAIN tasks :
            tasks[i].log # <<>> =>
                /\ tasks[i].st \in {"Dispatching", "Done"}
                /\ tasks[i].storer = NewStorage(i)
                /\ i \in fs)
    /\ [][/\ Len(tasks') >= Len(tasks)
          /\ \A i \in DOMAIN tasks' \ DOMAIN tasks : tasks'[i].st = "Pending"
          /\ \A i \in DOMAIN tasks :
                /\ tasks'[i].st # tasks[i].st => <<tasks[i].st, tasks'[i].st>> \in TaskSteps
                /\ tasks[i].st \in {"Dispatching", "Done"} => tasks'[i].targets = tasks[i].targets]_vars

\* the names of the regular-file entries of the store arg whose hash is h
RegularNames(h) ==
    {e.Name : e \in {x \in UNION {Range(t) : t \in arg.Trees} : x.Mode = Regular /\ x.Hash = h}}

\* C15: every record returned for a store has the repository it was
\* flattened for, the content of a blob of the store, and as filename the
\* name of a regular-file entry with that blob's hash, or "" when there is
\* none; and a blob no regular-file entry references gets a record named "".
C15_RecordsResolved ==
    pc = "flattened" =>
        /\ \A n \in DOMAIN ret.files :
              /\ ret.files[n].Repo = LoopVar
              /\ ret.files[n].Data \in arg.Blobs
              /\ IF RegularNames(ret.files[n].Data) = {}
                 THEN ret.files[n].Filename = ""
                 ELSE ret.files[n].Filename \in RegularNames(ret.files[n].Data)
        /\ \A b \in arg.Blobs :
              RegularNames(b) = {} =>
                  \E n \in DOMAIN ret.files :
                      ret.files[n].Data = b /\ ret.files[n].Filename = ""

\* C16: nothing but the loop's own position gates a spawn, a handoff or a
\* clone: the loop can spawn the next task and hand it its repository, and a
\* task can clone, however many clones are in flight; so all the tasks of
\* the merged list can be in Cloning at once.
C16_NoAdmissionControl ==
    /\ (pc = "loop" /\ k < Len(repos)) => ENABLED Spawn
    /\ pc = "send" => (tasks[k].st = "Pending" /\ ENABLED Handoff(k))
    /\ \A i \in DOMAIN tasks : (Alive /\ tasks[i].st = "Cloning") => ENABLED Clone(i)

C16_Witness ==
    /\ Len(repos) = MaxRepos
    /\ Len(tasks) = Len(repos)
    /\ \A i \in DOMAIN tasks : tasks[i].st = "Cloning"

\* C17: while the loop is blocked on its send exactly one task, the one just
\* spawned, is waiting to receive; a task keeps the one value it received;
\* when FullRecon has returned every spawned task has received, and with an
\* empty merged list none was spawned; and FullRecon eventually returns
\* unless a fetch or a clone failed.
C17_HandoffTerminates ==
    /\ [](pc = "send" => {i \in DOMAIN tasks : tasks[i].st = "Pending"} = {k})
    /\ [](pc = "done" =>
            /\ Len(tasks) = Len(repos)
            /\ \A i \in DOMAIN tasks : tasks[i].ptr = LoopVar)
    /\ [][\A i \in DOMAIN tasks : tasks[i].ptr # None => tasks'[i].ptr = tasks[i].ptr]_vars
    /\ <>(pc \in {"done", "fatal"})

====
